---- MODULE Spec2Model ----
(***************************************************************************)
(* ScanTrack Pro: the attendance ledger (daily_records), the compensation  *)
(* rules and the dashboard rollups of src/server.js over the schema of     *)
(* src/unnamed/part_000 (the Turso database module server.js requires).    *)
(*                                                                         *)
(* Conventions.  Calendar dates 'YYYY-MM-DD' are the integers YYYYMMDD:    *)
(* the integer order is the string order SQL's BETWEEN uses.  Money and    *)
(* rates are exact: a rate is a whole number of hundredths of a currency   *)
(* unit per page (0.10 is 10), so IEEE rounding error of the JavaScript    *)
(* doubles (below 1e-9 on these magnitudes) is not represented.  SQL NULL, *)
(* JavaScript null and undefined are NULL for numbers and NULLSTR for      *)
(* text.  Timestamps (created_at, updated_at) are not represented.         *)
(***************************************************************************)
EXTENDS Integers, Sequences, FiniteSets, TLC

VARIABLES
    users,          \* table users: id -> row
    locations,      \* table locations: id -> row
    daily_records,  \* table daily_records: set of rows, each with its rowid
    expenses,       \* table expenses: set of rows
    settings,       \* table settings: the value stored under key 'scan_rate', in
                    \* hundredths; NULL when the value is empty
    env,            \* deployment: time zone of the server, foreign-key enforcement
    reqs,           \* the write requests in flight, one per client connection
    started,        \* number of write requests accepted so far
    lastSaved,      \* ghost: the single-entry request that made the latest ledger write
    resp            \* the response of the latest read request

vars == <<users, locations, daily_records, expenses, settings, env, reqs, started,
          lastSaved, resp>>

-----------------------------------------------------------------------------
(* Bounds of the model *)

MaxRequests == 2

MaxBatch == 2

-----------------------------------------------------------------------------
(* Values *)

NULL == -1

NULLSTR == "NULL"

Falsy(x) == x = NULL \/ x = 0

FalsyStr(s) == s = NULLSTR \/ s = ""

\* JavaScript `x || null` on a number
OrNull(x) == IF Falsy(x) THEN NULL ELSE x

\* JavaScript `s || null` on a string
OrNullStr(s) == IF FalsyStr(s) THEN NULLSTR ELSE s

ValidStatuses == {"present", "absent", "file_close", "holiday"}

OperatorRoles == {"scanner_operator", "file_handler"}

-----------------------------------------------------------------------------
(* Calendar *)

Year(d) == d \div 10000

Month(d) == (d \div 100) % 100

Day(d) == d % 100

MkDate(y, m, d) == y * 10000 + m * 100 + d

IsLeap(y) == (y % 4 = 0 /\ y % 100 # 0) \/ y % 400 = 0

\* new Date(y, m, 0).getDate() with m counted from 1: the last day of month m
DaysInMonth(y, m) ==
    IF m = 2 THEN (IF IsLeap(y) THEN 29 ELSE 28)
    ELSE IF m \in {4, 6, 9, 11} THEN 30 ELSE 31

PrevDay(d) ==
    IF Day(d) > 1 THEN d - 1
    ELSE IF Month(d) > 1
         THEN MkDate(Year(d), Month(d) - 1, DaysInMonth(Year(d), Month(d) - 1))
         ELSE MkDate(Year(d) - 1, 12, 31)

-----------------------------------------------------------------------------
(* Table daily_records *)

RowsFor(uid, date) ==
    {r \in daily_records : r.user_id = uid /\ r.record_date = date}

\* SELECT id FROM daily_records WHERE user_id = ? AND record_date = ?
SelectExisting(uid, date) == RowsFor(uid, date) # {}

NextRowId ==
    IF daily_records = {} THEN 1
    ELSE 1 + CHOOSE m \in {r.id : r \in daily_records} :
                 \A r \in daily_records : r.id <= m

\* Mutant of InsertError: the table without its UNIQUE(user_id, record_date)
InsertErrorNoUnique(row) ==
    IF row.user_id = NULL \/ row.record_date = NULL THEN "NOT NULL"
    ELSE IF row.status \notin ValidStatuses THEN "CHECK"
    ELSE IF env.foreign_keys
            /\ (row.user_id \notin DOMAIN users
                \/ (row.entered_by # NULL /\ row.entered_by \notin DOMAIN users))
         THEN "FOREIGN KEY"
    ELSE "ok"

\* The constraints of the table: the error an INSERT of `row` raises, or "ok"
InsertError(row) ==
    IF row.user_id = NULL \/ row.record_date = NULL THEN "NOT NULL"
    ELSE IF row.status \notin ValidStatuses THEN "CHECK"
    ELSE IF SelectExisting(row.user_id, row.record_date) THEN "UNIQUE"
    ELSE IF env.foreign_keys
            /\ (row.user_id \notin DOMAIN users
                \/ (row.entered_by # NULL /\ row.entered_by \notin DOMAIN users))
         THEN "FOREIGN KEY"
    ELSE "ok"

\* INSERT INTO daily_records (user_id, record_date, scan_count, status, notes, entered_by)
InsertRecord(row) ==
    IF InsertError(row) = "ok"
    THEN daily_records \cup {[row EXCEPT !.id = NextRowId]}
    ELSE daily_records

\* The error an UPDATE ... WHERE user_id = ? AND record_date = ? raises, or "ok"
UpdateError(row) ==
    IF RowsFor(row.user_id, row.record_date) = {} THEN "ok"
    ELSE IF row.status \notin ValidStatuses THEN "CHECK"
    ELSE IF env.foreign_keys /\ row.entered_by # NULL /\ row.entered_by \notin DOMAIN users
         THEN "FOREIGN KEY"
    ELSE "ok"

\* Mutant of UpdateRecord: SET scan_count = scan_count + ?
UpdateRecordAdding(row) ==
    IF UpdateError(row) = "ok"
    THEN {IF r.user_id = row.user_id /\ r.record_date = row.record_date
          THEN [r EXCEPT !.scan_count = IF r.scan_count = NULL \/ row.scan_count = NULL
                                        THEN row.scan_count
                                        ELSE r.scan_count + row.scan_count,
                         !.status = row.status,
                         !.notes = row.notes, !.entered_by = row.entered_by]
          ELSE r : r \in daily_records}
    ELSE daily_records

\* UPDATE daily_records SET scan_count = ?, status = ?, notes = ?, entered_by = ?
\* WHERE user_id = ? AND record_date = ?
UpdateRecord(row) ==
    IF UpdateError(row) = "ok"
    THEN {IF r.user_id = row.user_id /\ r.record_date = row.record_date
          THEN [r EXCEPT !.scan_count = row.scan_count, !.status = row.status,
                         !.notes = row.notes, !.entered_by = row.entered_by]
          ELSE r : r \in daily_records}
    ELSE daily_records

-----------------------------------------------------------------------------
(* Identities *)

\* jwt.sign({ id, role, location_id, ... }) at login: what a request knows of its caller
Token(u) == [id |-> u, role |-> users[u].role, location_id |-> users[u].location_id]

Identities == {Token(u) : u \in {v \in DOMAIN users : users[v].is_active = 1}}

\* authorize(...roles)
Authorized(ident, roles) == ident.role \in roles

-----------------------------------------------------------------------------
(* POST /api/records and POST /api/records/bulk *)

Clients == {"c1", "c2"}

NoIdent == [id |-> NULL, role |-> "", location_id |-> NULL]

Idle == [pc |-> "idle", op |-> "none", ident |-> NoIdent, items |-> <<>>,
         target |-> NULL, i |-> 0, existing |-> FALSE, code |-> 0]

Free(c) == reqs[c].pc \in {"idle", "done"} /\ started < MaxRequests

\* Mutant of TargetUserId: the employee is taken from the request for every role
TargetUserIdFromBody(ident, item) == item.user_id

\* const targetUserId = operator ? req.user.id : user_id
TargetUserId(ident, item) ==
    IF ident.role \in OperatorRoles THEN ident.id ELSE item.user_id

\* The row POST /api/records writes
SingleRow(q) ==
    LET it == q.items[1]
    IN [id |-> 0, user_id |-> q.target, record_date |-> it.record_date,
        scan_count |-> OrNull(it.scan_count), status |-> it.status,
        notes |-> OrNullStr(it.notes), entered_by |-> q.ident.id]

\* The row POST /api/records/bulk writes for one item of the batch
BulkRow(q) ==
    LET it == q.items[q.i]
    IN [id |-> 0, user_id |-> it.user_id, record_date |-> it.record_date,
        scan_count |-> OrNull(it.scan_count),
        status |-> IF FalsyStr(it.status) THEN "present" ELSE it.status,
        notes |-> OrNullStr(it.notes), entered_by |-> q.ident.id]

\* The statement the handler issues after its existence check, and its outcome
WriteError(existing, row) == IF existing THEN UpdateError(row) ELSE InsertError(row)

WriteRecord(existing, row) == IF existing THEN UpdateRecord(row) ELSE InsertRecord(row)

RecordStart(c, ident, item) ==
    LET target == TargetUserId(ident, item)
        bad == Falsy(target) \/ Falsy(item.record_date) \/ FalsyStr(item.status)
    IN /\ Free(c)
       /\ started' = started + 1
       /\ reqs' = [reqs EXCEPT ![c] =
              [pc |-> IF bad THEN "done" ELSE "select", op |-> "single",
               ident |-> ident, items |-> <<item>>, target |-> target, i |-> 1,
               existing |-> FALSE, code |-> IF bad THEN 400 ELSE 0]]
       /\ UNCHANGED <<users, locations, daily_records, expenses, settings, env,
                      lastSaved, resp>>

RecordSelect(c) ==
    LET q == reqs[c]
    IN /\ q.pc = "select" /\ q.op = "single"
       /\ reqs' = [reqs EXCEPT ![c].pc = "write",
              ![c].existing = SelectExisting(q.target, q.items[1].record_date)]
       /\ UNCHANGED <<users, locations, daily_records, expenses, settings, env,
                      started, lastSaved, resp>>

RecordWrite(c) ==
    LET q == reqs[c]
        row == SingleRow(q)
        err == WriteError(q.existing, row)
    IN /\ q.pc = "write" /\ q.op = "single"
       /\ daily_records' = WriteRecord(q.existing, row)
       /\ reqs' = [reqs EXCEPT ![c].pc = "done",
              ![c].code = IF err = "ok" THEN 200 ELSE 500]
       /\ lastSaved' = IF err = "ok"
                       THEN <<[ident |-> q.ident, item |-> q.items[1]]>>
                       ELSE lastSaved
       /\ UNCHANGED <<users, locations, expenses, settings, env, started, resp>>

BulkStart(c, ident, items) ==
    LET denied == ~Authorized(ident, {"super_admin", "location_manager"})
        empty == Len(items) = 0
    IN /\ Free(c)
       /\ started' = started + 1
       /\ reqs' = [reqs EXCEPT ![c] =
              [pc |-> IF denied \/ empty THEN "done" ELSE "select", op |-> "bulk",
               ident |-> ident, items |-> IF denied THEN <<>> ELSE items, target |-> NULL,
               i |-> IF denied \/ empty THEN 0 ELSE 1, existing |-> FALSE,
               code |-> IF denied THEN 403 ELSE IF empty THEN 200 ELSE 0]]
       /\ UNCHANGED <<users, locations, daily_records, expenses, settings, env,
                      lastSaved, resp>>

BulkSelect(c) ==
    LET q == reqs[c]
        it == q.items[q.i]
    IN /\ q.pc = "select" /\ q.op = "bulk"
       /\ reqs' = [reqs EXCEPT ![c].pc = "write",
              ![c].existing = SelectExisting(it.user_id, it.record_date)]
       /\ UNCHANGED <<users, locations, daily_records, expenses, settings, env,
                      started, lastSaved, resp>>

BulkWrite(c) ==
    LET q == reqs[c]
        row == BulkRow(q)
        err == WriteError(q.existing, row)
        last == q.i = Len(q.items)
    IN /\ q.pc = "write" /\ q.op = "bulk"
       /\ daily_records' = WriteRecord(q.existing, row)
       /\ reqs' = [reqs EXCEPT
              ![c].pc = IF err # "ok" \/ last THEN "done" ELSE "select",
              ![c].i = IF err # "ok" \/ last THEN q.i ELSE q.i + 1,
              ![c].code = IF err # "ok" THEN 500 ELSE IF last THEN 200 ELSE 0]
       /\ lastSaved' = IF err = "ok" THEN <<>> ELSE lastSaved
       /\ UNCHANGED <<users, locations, expenses, settings, env, started, resp>>

-----------------------------------------------------------------------------
(* Read requests: the handler computes its answer in `resp`, res.json sends it *)

NoResp == [op |-> "none"]

Deliver ==
    /\ resp # NoResp
    /\ resp' = NoResp
    /\ UNCHANGED <<users, locations, daily_records, expenses, settings, env, reqs,
                   started, lastSaved>>

-----------------------------------------------------------------------------
(* Compensation and rounding *)

\* Amounts are held in units of 1/Scale of a currency unit: Scale is a multiple of 100
\* (rates are hundredths) and of the month lengths 30 and 31 of the model's calendar
\* (March to May 2026), so every daily proration of the model is exact.
Scale == 100 * 93

\* Math.round of an amount held in units of 1/unit: the nearest integer, halves up
Round(n, unit) == (2 * n + unit) \div (2 * unit)

\* parseFloat(scanRateSetting?.value || 0.10), in hundredths
\* Mutant of GlobalRate: the rate read when the server started is kept
GlobalRateAtStartup == 10

GlobalRate == IF settings = NULL THEN 10 ELSE settings

\* new Date(r.record_date) is midnight UTC of the date; getFullYear() and getMonth()
\* read it in the server's time zone, where it is still the previous day when the
\* zone is west of UTC
LocalDate(d) == IF env.tz = "west" THEN PrevDay(d) ELSE d

\* new Date(recordDate.getFullYear(), recordDate.getMonth() + 1, 0).getDate()
RecordMonthLength(d) == DaysInMonth(Year(LocalDate(d)), Month(LocalDate(d)))

\* const rate = custom_rate || globalRate
PieceRate(custom_rate) == IF Falsy(custom_rate) THEN GlobalRate ELSE custom_rate

\* What one present record adds to the cost, in units of 1/Scale
Contribution(salary_type, custom_rate, fixed_salary, scan_count, record_date) ==
    IF salary_type = "fixed"
    THEN ((IF Falsy(fixed_salary) THEN 0 ELSE fixed_salary) * Scale)
             \div RecordMonthLength(record_date)
    ELSE (IF Falsy(scan_count) THEN 0 ELSE scan_count) * PieceRate(custom_rate)
             * (Scale \div 100)

\* if (start_date && end_date) ... record_date BETWEEN ? AND ?
InWindow(q, d) ==
    (~Falsy(q.start_date) /\ ~Falsy(q.end_date)) => (q.start_date <= d /\ d <= q.end_date)

\* JOIN users u ON dr.user_id = u.id
Joined == {r \in daily_records : r.user_id \in DOMAIN users}

RECURSIVE SumScans(_)
SumScans(rows) ==
    IF rows = {} THEN 0
    ELSE LET r == CHOOSE x \in rows : TRUE
         IN (IF Falsy(r.scan_count) THEN 0 ELSE r.scan_count) + SumScans(rows \ {r})

RECURSIVE SumCost(_)
SumCost(rows) ==
    IF rows = {} THEN 0
    ELSE LET r == CHOOSE x \in rows : TRUE
             u == users[r.user_id]
         IN Contribution(u.salary_type, u.custom_rate, u.fixed_salary,
                         r.scan_count, r.record_date)
            + SumCost(rows \ {r})

RECURSIVE SumAmount(_)
SumAmount(rows) ==
    IF rows = {} THEN 0
    ELSE LET e == CHOOSE x \in rows : TRUE
         IN e.amount + SumAmount(rows \ {e})

RECURSIVE SumField(_, _)
SumField(entries, field) ==
    IF entries = {} THEN 0
    ELSE LET e == CHOOSE x \in entries : TRUE
         IN e[field] + SumField(entries \ {e}, field)

-----------------------------------------------------------------------------
(* GET /api/records *)

\* new Date(year, month, 0).toISOString().split('T')[0]: local midnight of the last
\* day of the month, printed in UTC, which is the day before when the zone is east
EndOfMonthISO(year, month) ==
    LET last == MkDate(year, month, DaysInMonth(year, month))
    IN IF env.tz = "east" THEN PrevDay(last) ELSE last

\* Mutant of ListScope: a requested location is honoured for every role but operators
ListScopeTrusting(ident, q, r) ==
    IF ident.role \in OperatorRoles THEN r.user_id = ident.id
    ELSE IF ~Falsy(q.location_id) THEN users[r.user_id].location_id = q.location_id
    ELSE IF ident.role = "location_manager"
         THEN users[r.user_id].location_id = ident.location_id
    ELSE TRUE

\* The role branch of the WHERE clause
ListScope(ident, q, r) ==
    IF ident.role \in OperatorRoles THEN r.user_id = ident.id
    ELSE IF ident.role = "location_manager"
         THEN ident.location_id # NULL /\ users[r.user_id].location_id = ident.location_id
    ELSE IF ~Falsy(q.location_id) THEN users[r.user_id].location_id = q.location_id
    ELSE TRUE

ListDates(q, d) ==
    IF ~Falsy(q.start_date) /\ ~Falsy(q.end_date)
    THEN q.start_date <= d /\ d <= q.end_date
    ELSE IF ~Falsy(q.month) /\ ~Falsy(q.year)
         THEN MkDate(q.year, q.month, 1) <= d /\ d <= EndOfMonthISO(q.year, q.month)
    ELSE TRUE

ListRecordsRows(ident, q) ==
    {r \in Joined :
        /\ ListScope(ident, q, r)
        /\ (~Falsy(q.user_id) => r.user_id = q.user_id)
        /\ ListDates(q, r.record_date)}

ListRecords(ident, q) ==
    /\ resp = NoResp
    /\ resp' = [op |-> "records", ident |-> ident, query |-> q, code |-> 200,
                records |-> ListRecordsRows(ident, q)]
    /\ UNCHANGED <<users, locations, daily_records, expenses, settings, env, reqs,
                   started, lastSaved>>

-----------------------------------------------------------------------------
(* GET /api/records/monthly *)

\* The role branch of the users query
GridUserScope(ident, q, u) ==
    IF ident.role = "location_manager"
    THEN ident.location_id # NULL /\ users[u].location_id = ident.location_id
    ELSE IF ident.role \in OperatorRoles THEN u = ident.id
    ELSE IF ~Falsy(q.location_id) THEN users[u].location_id = q.location_id
    ELSE TRUE

GridUsers(ident, q) ==
    {u \in DOMAIN users :
        users[u].is_active = 1 /\ users[u].role # "super_admin" /\ GridUserScope(ident, q, u)}

\* The role branch of the records query
GridRecordScope(ident, q, r) ==
    IF ident.role = "location_manager"
    THEN ident.location_id # NULL /\ users[r.user_id].location_id = ident.location_id
    ELSE IF ident.role \in OperatorRoles THEN r.user_id = ident.id
    ELSE IF ~Falsy(q.location_id) THEN users[r.user_id].location_id = q.location_id
    ELSE TRUE

GridRecords(ident, q) ==
    {r \in Joined :
        /\ MkDate(q.year, q.month, 1) <= r.record_date
        /\ r.record_date <= MkDate(q.year, q.month, DaysInMonth(q.year, q.month))
        /\ GridRecordScope(ident, q, r)}

\* users.map(user => ... dailyData[date] = recordMap[user.id]?.[date] || null)
GridCells(ident, q) ==
    {[user_id |-> r.user_id, record_date |-> r.record_date, scan_count |-> r.scan_count,
      status |-> r.status, notes |-> r.notes] :
        r \in {x \in GridRecords(ident, q) : x.user_id \in GridUsers(ident, q)}}

MonthlyGrid(ident, q) ==
    /\ resp = NoResp
    /\ resp' = [op |-> "monthly", ident |-> ident, query |-> q, code |-> 200,
                rows |-> GridUsers(ident, q), cells |-> GridCells(ident, q),
                scan_rate |-> GlobalRate]
    /\ UNCHANGED <<users, locations, daily_records, expenses, settings, env, reqs,
                   started, lastSaved>>

-----------------------------------------------------------------------------
(* GET /api/dashboard/simple *)

\* Mutant of FleetLocations: locations are taken from the joined attendance rows, so a
\* location without a present record in the window is not listed
FleetLocationsJoined(q) ==
    {l \in DOMAIN locations :
        /\ locations[l].is_active = 1 /\ (~Falsy(q.location_id) => l = q.location_id)
        /\ \E r \in Joined : /\ r.status = "present" /\ InWindow(q, r.record_date)
                             /\ users[r.user_id].location_id = l}

\* SELECT id, name, client_rate FROM locations WHERE is_active = 1 [AND id = ?]
FleetLocations(q) ==
    {l \in DOMAIN locations :
        locations[l].is_active = 1 /\ (~Falsy(q.location_id) => l = q.location_id)}

\* allRecords.filter(r => r.location_id === loc.id)
FleetRecords(q, l) ==
    {r \in Joined :
        r.status = "present" /\ InWindow(q, r.record_date)
        /\ users[r.user_id].location_id = l}

\* expensesMap[loc.id] || 0, in hundredths
FleetExpenses(q, l) ==
    SumAmount({e \in expenses : e.location_id = l /\ InWindow(q, e.expense_date)})

FleetEntry(q, l) ==
    LET rows == FleetRecords(q, l)
        rate == IF Falsy(locations[l].client_rate) THEN 0 ELSE locations[l].client_rate
    IN [location_id |-> l, client_rate |-> rate,
        total_scans |-> SumScans(rows),
        employee_cost |-> Round(SumCost(rows), Scale),
        expenses |-> Round(FleetExpenses(q, l), 100),
        revenue |-> Round(SumScans(rows) * rate, 100)]

FleetData(q) == {FleetEntry(q, l) : l \in FleetLocations(q)}

\* Mutant of FleetTotals: the expenses total adds up the employee_cost column
FleetTotalsCostTwice(entries) ==
    [total_scans |-> SumField(entries, "total_scans"),
     total_employee_cost |-> SumField(entries, "employee_cost"),
     total_expenses |-> SumField(entries, "employee_cost"),
     total_revenue |-> SumField(entries, "revenue")]

\* const totals = { total_scans: locationData.reduce(...), ... }
FleetTotals(entries) ==
    [total_scans |-> SumField(entries, "total_scans"),
     total_employee_cost |-> SumField(entries, "employee_cost"),
     total_expenses |-> SumField(entries, "expenses"),
     total_revenue |-> SumField(entries, "revenue")]

FleetSummary(ident, q) ==
    /\ resp = NoResp
    /\ resp' = [op |-> "fleet", ident |-> ident, query |-> q, code |-> 200,
                locations |-> FleetData(q), totals |-> FleetTotals(FleetData(q))]
    /\ UNCHANGED <<users, locations, daily_records, expenses, settings, env, reqs,
                   started, lastSaved>>

-----------------------------------------------------------------------------
(* GET /api/dashboard/location/:id *)

\* SELECT ... FROM users WHERE location_id = ? AND is_active = 1 AND role != 'super_admin'
LocationEmployees(l) ==
    {u \in DOMAIN users :
        users[u].location_id = l /\ users[u].is_active = 1 /\ users[u].role # "super_admin"}

\* recordsByUser[emp.id] || []
EmployeeRecords(q, l, u) ==
    {r \in Joined :
        users[r.user_id].location_id = l /\ r.status = "present"
        /\ InWindow(q, r.record_date) /\ r.user_id = u}

EmployeeEntry(q, l, u) ==
    [id |-> u, role |-> users[u].role,
     total_scans |-> SumScans(EmployeeRecords(q, l, u)),
     earnings |-> Round(SumCost(EmployeeRecords(q, l, u)), Scale)]

LocationData(q, l) ==
    LET emps == {EmployeeEntry(q, l, u) : u \in LocationEmployees(l)}
        scans == SumField(emps, "total_scans")
        rate == IF Falsy(locations[l].client_rate) THEN 0 ELSE locations[l].client_rate
        spent == SumAmount({e \in expenses : e.location_id = l /\ InWindow(q, e.expense_date)})
    IN [location_id |-> l, employees |-> emps,
        summary |-> [total_scans |-> scans,
                     employee_cost |-> SumField(emps, "earnings"),
                     expenses |-> Round(spent, 100),
                     revenue |-> Round(scans * rate, 100)]]

LocationSummary(ident, l, q) ==
    /\ resp = NoResp
    /\ resp' = IF l \in DOMAIN locations
               THEN [op |-> "location", ident |-> ident, query |-> q, id |-> l,
                     code |-> 200, data |-> LocationData(q, l)]
               ELSE [op |-> "location", ident |-> ident, query |-> q, id |-> l,
                     code |-> 404]
    /\ UNCHANGED <<users, locations, daily_records, expenses, settings, env, reqs,
                   started, lastSaved>>

-----------------------------------------------------------------------------
(* GET /api/dashboard/my-stats; `today` is new Date().toISOString().split('T')[0] *)

\* record_date LIKE currentMonth + '%' AND status = 'present'
MonthRows(u, today) ==
    {r \in daily_records :
        /\ r.user_id = u /\ r.status = "present"
        /\ Year(r.record_date) = Year(today) /\ Month(r.record_date) = Month(today)}

\* monthEarnings, in hundredths
MonthEarnings(u, today) ==
    IF users[u].salary_type = "fixed"
    THEN (IF Falsy(users[u].fixed_salary) THEN 0 ELSE users[u].fixed_salary) * 100
    ELSE SumScans(MonthRows(u, today)) * PieceRate(users[u].custom_rate)

\* todayRecord?.scan_count || 0, todayRecord?.status || 'not_entered'
TodayEntry(u, today) ==
    LET rows == RowsFor(u, today)
    IN IF rows = {} THEN [scan_count |-> 0, status |-> "not_entered", notes |-> ""]
       ELSE LET r == CHOOSE x \in rows : TRUE
            IN [scan_count |-> IF Falsy(r.scan_count) THEN 0 ELSE r.scan_count,
                status |-> IF FalsyStr(r.status) THEN "not_entered" ELSE r.status,
                notes |-> IF FalsyStr(r.notes) THEN "" ELSE r.notes]

MyStats(ident, today) ==
    /\ resp = NoResp
    /\ resp' =
          IF ident.id \in DOMAIN users
          THEN [op |-> "mystats", ident |-> ident, today |-> today, code |-> 200,
                salary_type |-> users[ident.id].salary_type,
                today_entry |-> TodayEntry(ident.id, today),
                month |-> [total_scans |-> SumScans(MonthRows(ident.id, today)),
                           earnings |-> Round(MonthEarnings(ident.id, today), 100),
                           days_present |-> Cardinality(MonthRows(ident.id, today))],
                all_time |-> SumScans({r \in daily_records :
                                          r.user_id = ident.id /\ r.status = "present"})]
          ELSE [op |-> "mystats", ident |-> ident, today |-> today, code |-> 500]
    /\ UNCHANGED <<users, locations, daily_records, expenses, settings, env, reqs,
                   started, lastSaved>>

-----------------------------------------------------------------------------
(* PUT /api/users/:id and PUT /api/settings *)

\* COALESCE(?, column)
Coalesce(new, old) == IF new = NULL THEN old ELSE new

CoalesceStr(new, old) == IF new = NULLSTR THEN old ELSE new

FixedRoles == {"super_admin", "location_manager", "scanner_operator", "file_handler"}

\* Mutant of RoleAllowed: the users table has no CHECK on role
RoleAllowedAny(role) == TRUE

\* role TEXT NOT NULL CHECK(role IN (...))
RoleAllowed(role) == role \in FixedRoles

\* The handler in the order of its statements: the manager checks, the password
\* UPDATE, the username check, the COALESCE UPDATE (which the CHECKs of role and
\* salary_type can refuse)
UserUpdate(ident, id, body) ==
    LET foreign == id \notin DOMAIN users \/ users[id].location_id # ident.location_id
        denied == ~Authorized(ident, {"super_admin", "location_manager"})
                  \/ (ident.role = "location_manager"
                      /\ (foreign \/ body.role \in {"location_manager", "super_admin"}))
        hashed == IF ~denied /\ ~FalsyStr(body.password) /\ id \in DOMAIN users
                  THEN [users EXCEPT ![id].password = body.password]
                  ELSE users
        taken == ~FalsyStr(body.username)
                 /\ \E v \in DOMAIN users : v # id /\ users[v].username = body.username
        edited == [hashed EXCEPT
                      ![id].username = CoalesceStr(body.username, @),
                      ![id].role = CoalesceStr(body.role, @),
                      ![id].is_active = Coalesce(body.is_active, @),
                      ![id].salary_type = CoalesceStr(body.salary_type, @),
                      ![id].custom_rate = Coalesce(body.custom_rate, @),
                      ![id].fixed_salary = Coalesce(body.fixed_salary, @)]
        refused == /\ id \in DOMAIN users
                   /\ \/ ~RoleAllowed(edited[id].role)
                      \/ edited[id].salary_type \notin {"per_page", "fixed"}
        code == IF denied THEN 403 ELSE IF taken THEN 400
                ELSE IF refused THEN 500 ELSE 200
    IN /\ started < MaxRequests
       /\ resp = NoResp
       /\ started' = started + 1
       /\ users' = IF code # 200 \/ id \notin DOMAIN users THEN hashed ELSE edited
       /\ resp' = [op |-> "user_update", ident |-> ident, id |-> id, body |-> body,
                   code |-> code]
       /\ UNCHANGED <<locations, daily_records, expenses, settings, env, reqs, lastSaved>>

\* Mutant of UserDeactivate: the manager's location check is missing
UserDeactivateAnywhere(ident, id) ==
    LET denied == ~Authorized(ident, {"super_admin", "location_manager"})
    IN /\ started < MaxRequests
       /\ resp = NoResp
       /\ started' = started + 1
       /\ users' = IF denied \/ id \notin DOMAIN users THEN users
                   ELSE [users EXCEPT ![id].is_active = 0]
       /\ resp' = [op |-> "user_deactivate", ident |-> ident, id |-> id,
                   code |-> IF denied THEN 403 ELSE 200]
       /\ UNCHANGED <<locations, daily_records, expenses, settings, env, reqs, lastSaved>>

\* DELETE /api/users/:id: UPDATE users SET is_active = 0
UserDeactivate(ident, id) ==
    LET denied == ~Authorized(ident, {"super_admin", "location_manager"})
                  \/ (ident.role = "location_manager"
                      /\ (id \notin DOMAIN users
                          \/ users[id].location_id # ident.location_id))
    IN /\ started < MaxRequests
       /\ resp = NoResp
       /\ started' = started + 1
       /\ users' = IF denied \/ id \notin DOMAIN users THEN users
                   ELSE [users EXCEPT ![id].is_active = 0]
       /\ resp' = [op |-> "user_deactivate", ident |-> ident, id |-> id,
                   code |-> IF denied THEN 403 ELSE 200]
       /\ UNCHANGED <<locations, daily_records, expenses, settings, env, reqs, lastSaved>>

\* new_password.length < 4, passwords being "" or names of four letters and more
TooShort(password) == FalsyStr(password) \/ password = "pw"

\* POST /api/users/:id/reset-password
ResetPassword(ident, id, new_password) ==
    LET code == IF ~Authorized(ident, {"super_admin", "location_manager"}) THEN 403
                ELSE IF TooShort(new_password) THEN 400
                ELSE IF ident.role = "location_manager"
                        /\ (id \notin DOMAIN users
                            \/ users[id].location_id # ident.location_id) THEN 403
                ELSE 200
    IN /\ started < MaxRequests
       /\ resp = NoResp
       /\ started' = started + 1
       /\ users' = IF code # 200 \/ id \notin DOMAIN users THEN users
                   ELSE [users EXCEPT ![id].password = new_password]
       /\ resp' = [op |-> "reset_password", ident |-> ident, id |-> id, code |-> code]
       /\ UNCHANGED <<locations, daily_records, expenses, settings, env, reqs, lastSaved>>

\* if (scan_rate !== undefined) UPDATE or INSERT the value String(scan_rate); the
\* body {scan_rate: ''} stores the empty value
SettingsUpdate(ident, scan_rate) ==
    /\ started < MaxRequests
    /\ started' = started + 1
    /\ settings' = IF Authorized(ident, {"super_admin"}) THEN scan_rate ELSE settings
    /\ UNCHANGED <<users, locations, daily_records, expenses, env, reqs, lastSaved, resp>>

-----------------------------------------------------------------------------
(* DELETE /api/locations/:id, POST /api/expenses, POST /api/users *)

\* DELETE FROM locations WHERE id = ?
WithoutLocation(l) == [x \in DOMAIN locations \ {l} |-> locations[x]]

\* SELECT COUNT(*) FROM users WHERE location_id = ?
CountEmployees(l) == Cardinality({u \in DOMAIN users : users[u].location_id = l})

\* SELECT COUNT(*) FROM expenses WHERE location_id = ?
CountExpenses(l) == Cardinality({e \in expenses : e.location_id = l})

\* SELECT COUNT(*) FROM daily_records dr JOIN users u ON dr.user_id = u.id WHERE u.location_id = ?
CountRecords(l) == Cardinality({r \in Joined : users[r.user_id].location_id = l})

DeleteRequest(ident, l, permanent) ==
    [pc |-> "employees", op |-> "delloc", ident |-> ident, target |-> l,
     permanent |-> permanent, blocked |-> "none", count |-> 0, code |-> 0]

\* authorize('super_admin'); without ?permanent=true the location is deactivated
DeleteLocationStart(c, ident, l, permanent) ==
    LET q == DeleteRequest(ident, l, permanent)
    IN /\ Free(c)
       /\ started' = started + 1
       /\ IF ~Authorized(ident, {"super_admin"})
          THEN /\ reqs' = [reqs EXCEPT ![c] = [q EXCEPT !.pc = "done", !.code = 403]]
               /\ UNCHANGED locations
          ELSE IF ~permanent
          THEN /\ reqs' = [reqs EXCEPT ![c] = [q EXCEPT !.pc = "done", !.code = 200]]
               /\ locations' = [x \in DOMAIN locations |->
                                   IF x = l THEN [locations[x] EXCEPT !.is_active = 0]
                                   ELSE locations[x]]
          ELSE /\ reqs' = [reqs EXCEPT ![c] = q]
               /\ UNCHANGED locations
       /\ UNCHANGED <<users, daily_records, expenses, settings, env, lastSaved, resp>>

\* One of the three counts: a positive count ends the request with 400 and the count
DeleteCount(c, stage, n, next) ==
    /\ reqs[c].op = "delloc" /\ reqs[c].pc = stage
    /\ reqs' = [reqs EXCEPT ![c] =
                   IF n > 0
                   THEN [@ EXCEPT !.pc = "done", !.code = 400, !.blocked = stage, !.count = n]
                   ELSE [@ EXCEPT !.pc = next]]
    /\ UNCHANGED <<users, locations, daily_records, expenses, settings, env, started,
                   lastSaved, resp>>

DeleteCountEmployees(c) ==
    DeleteCount(c, "employees", CountEmployees(reqs[c].target), "expenses")

DeleteCountExpenses(c) ==
    DeleteCount(c, "expenses", CountExpenses(reqs[c].target), "records")

DeleteCountRecords(c) ==
    DeleteCount(c, "records", CountRecords(reqs[c].target), "delete")

\* The DELETE statement; users.location_id REFERENCES locations(id) rejects it when the
\* connection enforces foreign keys and an employee points at the location
DeleteLocationRow(c) ==
    LET l == reqs[c].target
        refused == env.foreign_keys /\ l \in DOMAIN locations /\ CountEmployees(l) > 0
    IN /\ reqs[c].op = "delloc" /\ reqs[c].pc = "delete"
       /\ locations' = IF refused THEN locations ELSE WithoutLocation(l)
       /\ reqs' = [reqs EXCEPT ![c] =
                      [@ EXCEPT !.pc = "done", !.code = IF refused THEN 500 ELSE 200]]
       /\ UNCHANGED <<users, daily_records, expenses, settings, env, started,
                      lastSaved, resp>>

NextExpenseId == 1 + Cardinality(expenses)

\* POST /api/expenses: authorize('super_admin'); the table has no foreign key
ExpenseCreate(ident, body) ==
    /\ started < MaxRequests
    /\ started' = started + 1
    /\ expenses' =
          IF /\ Authorized(ident, {"super_admin"})
             /\ ~Falsy(body.location_id) /\ ~Falsy(body.expense_date) /\ ~Falsy(body.amount)
          THEN expenses \cup {[id |-> NextExpenseId, location_id |-> body.location_id,
                               expense_date |-> body.expense_date, amount |-> body.amount]}
          ELSE expenses
    /\ UNCHANGED <<users, locations, daily_records, settings, env, reqs, lastSaved, resp>>

\* PUT /api/expenses/:id: authorize('super_admin'); the UPDATE names the location without
\* looking it up
ExpenseUpdate(ident, id, body) ==
    /\ started < MaxRequests
    /\ started' = started + 1
    /\ expenses' =
          IF /\ Authorized(ident, {"super_admin"})
             /\ ~Falsy(body.location_id) /\ ~Falsy(body.expense_date) /\ ~Falsy(body.amount)
          THEN {IF e.id = id
                THEN [id |-> id, location_id |-> body.location_id,
                      expense_date |-> body.expense_date, amount |-> body.amount]
                ELSE e : e \in expenses}
          ELSE expenses
    /\ UNCHANGED <<users, locations, daily_records, settings, env, reqs, lastSaved, resp>>

\* The INSERT of POST /api/users fails on UNIQUE(username), on the CHECKs of role and
\* salary_type and, when enforced, on the foreign key of location_id
UserInsertError(row) ==
    \/ \E u \in DOMAIN users : users[u].username = row.username
    \/ ~RoleAllowed(row.role)
    \/ row.salary_type \notin {"per_page", "fixed"}
    \/ (env.foreign_keys /\ row.location_id # NULL /\ row.location_id \notin DOMAIN locations)

\* POST /api/users
UserCreate(ident, body) ==
    LET target == IF ident.role = "super_admin" THEN body.location_id ELSE ident.location_id
        row == [username |-> body.username, password |-> body.password, role |-> body.role,
                location_id |-> target, is_active |-> 1,
                salary_type |-> IF FalsyStr(body.salary_type) THEN "per_page"
                                ELSE body.salary_type,
                custom_rate |-> OrNull(body.custom_rate),
                fixed_salary |-> OrNull(body.fixed_salary)]
        code == IF ~Authorized(ident, {"super_admin", "location_manager"}) THEN 403
                ELSE IF FalsyStr(body.username) \/ FalsyStr(body.password)
                        \/ FalsyStr(body.role) THEN 400
                ELSE IF body.role = "super_admin" /\ ident.role # "super_admin" THEN 403
                ELSE IF \E u \in DOMAIN users : users[u].username = row.username THEN 400
                ELSE IF UserInsertError(row) THEN 500 ELSE 200
    IN /\ started < MaxRequests
       /\ resp = NoResp
       /\ started' = started + 1
       /\ users' = IF code = 200 THEN Append(users, row) ELSE users
       /\ resp' = [op |-> "user_create", ident |-> ident, body |-> body, code |-> code,
                   id |-> IF code = 200 THEN Len(users) + 1 ELSE NULL]
       /\ UNCHANGED <<locations, daily_records, expenses, settings, env, reqs, lastSaved>>

-----------------------------------------------------------------------------
(* The earnings loop in IEEE-754 double arithmetic.

   employeeCost += (r.scan_count || 0) * rate is a chain of double multiplications and
   additions, each rounded to 53 significant bits, ties to even.  For rates in
   [1/16, 1/2) every value of the chain is a multiple of 2^-56, so a value is modelled
   exactly as the integer number of units of 2^-56, written in four limbs of 16 bits,
   least significant first. *)

Limb == 2 ^ 16

Pow2(n) == IF n = 0 THEN 1 ELSE 2 ^ n

BigZero == <<0, 0, 0, 0>>

\* Carry propagation over limbs that may exceed 16 bits
BigCarry(a) ==
    LET c0 == a[1]
        c1 == a[2] + c0 \div Limb
        c2 == a[3] + c1 \div Limb
        c3 == a[4] + c2 \div Limb
    IN <<c0 % Limb, c1 % Limb, c2 % Limb, c3>>

BigAdd(a, b) == BigCarry(<<a[1] + b[1], a[2] + b[2], a[3] + b[3], a[4] + b[4]>>)

\* The exact product with an integer below 2^15
BigTimes(a, n) == BigCarry(<<a[1] * n, a[2] * n, a[3] * n, a[4] * n>>)

\* Number of significant bits of an integer below 2^16
RECURSIVE BitLength(_)
BitLength(n) == IF n = 0 THEN 0 ELSE 1 + BitLength(n \div 2)

BigBitLength(a) ==
    IF a[4] # 0 THEN 48 + BitLength(a[4])
    ELSE IF a[3] # 0 THEN 32 + BitLength(a[3])
    ELSE IF a[2] # 0 THEN 16 + BitLength(a[2])
    ELSE BitLength(a[1])

\* Rounding of an exact value to the nearest double, ties to even: the bits below the
\* 53 leading ones are dropped (they lie in the lowest limb for values below 128)
ToDouble(a) ==
    LET drop == BigBitLength(a) - 53
    IN IF drop <= 0 THEN a
       ELSE LET unit == Pow2(drop)
                rest == a[1] % unit
                odd == (a[1] \div unit) % 2 = 1
                up == 2 * rest > unit \/ (2 * rest = unit /\ odd)
            IN BigCarry(<<a[1] - rest + (IF up THEN unit ELSE 0), a[2], a[3], a[4]>>)

\* parseFloat of the stored rate, and a custom_rate as the driver returns it: the
\* doubles nearest to 0.10, 0.15 and 0.20, in units of 2^-56
DoubleOfRate(hundredths) ==
    CASE hundredths = 10 -> <<39322, 39321, 39321, 25>>
      [] hundredths = 15 -> <<26214, 26214, 26214, 38>>
      [] hundredths = 20 -> <<13108, 13107, 13107, 51>>

\* count * rate in double arithmetic
FloatTimes(count, rate) == ToDouble(BigTimes(rate, count))

\* x + y in double arithmetic
FloatPlus(x, y) == ToDouble(BigAdd(x, y))

\* Math.round(x): floor(x + 1/2), exact
MathRound(x) == BigAdd(x, <<0, 0, 0, 128>>)[4] \div 256

\* The loop over the records of piece-rate employees, in the order `rows` in which the
\* query returned them
RECURSIVE FloatCost(_)
FloatCost(rows) ==
    IF rows = <<>> THEN BigZero
    ELSE LET n == Len(rows)
             r == rows[n]
             rate == DoubleOfRate(PieceRate(users[r.user_id].custom_rate))
         IN FloatPlus(FloatCost(SubSeq(rows, 1, n - 1)),
                      FloatTimes(IF Falsy(r.scan_count) THEN 0 ELSE r.scan_count, rate))

\* totalScans += r.scan_count || 0, in the same order
RECURSIVE ScansInOrder(_)
ScansInOrder(rows) ==
    IF rows = <<>> THEN 0
    ELSE LET n == Len(rows)
         IN ScansInOrder(SubSeq(rows, 1, n - 1))
            + (IF Falsy(rows[n].scan_count) THEN 0 ELSE rows[n].scan_count)

-----------------------------------------------------------------------------
(* The ledger under concurrent entry: specification Spec *)

\* The employees of the model: an administrator without location, the manager of
\* location 1, an operator of location 1 and a file handler of location 2
UserRow(name, role, loc) ==
    [username |-> name, password |-> "pw0", role |-> role, location_id |-> loc,
     is_active |-> 1, salary_type |-> "per_page", custom_rate |-> NULL,
     fixed_salary |-> NULL]

Roster ==
    (1 :> UserRow("admin", "super_admin", NULL))
    @@ (2 :> UserRow("mgr", "location_manager", 1))
    @@ (3 :> UserRow("op3", "scanner_operator", 1))
    @@ (4 :> UserRow("fh4", "file_handler", 2))

LocationRow(active, rate) == [is_active |-> active, client_rate |-> rate]

TwoLocations == (1 :> LocationRow(1, 50)) @@ (2 :> LocationRow(1, 0))

\* Request bodies.  "bogus" is no status of the schema; user 9 does not exist
EntryDates == {20260331, 20260401}

Item(u, d, n, st, notes) ==
    [user_id |-> u, record_date |-> d, scan_count |-> n, status |-> st, notes |-> notes]

EntryItems ==
    {Item(u, d, p[1], p[2], p[3]) :
        u \in {3, 4}, d \in EntryDates,
        p \in {<<7, "present", "n">>, <<7, "absent", "">>, <<0, "bogus", "">>}}

BatchItems ==
    {Item(3, 20260331, 5, "", ""), Item(4, 20260331, 0, "holiday", "n"),
     Item(3, 20260331, 5, "bogus", ""), Item(9, 20260331, 5, "present", "")}

RECURSIVE SeqsUpTo(_, _)
SeqsUpTo(S, n) ==
    IF n = 0 THEN {<<>>}
    ELSE LET shorter == SeqsUpTo(S, n - 1)
         IN shorter \cup {Append(q, x) : q \in {t \in shorter : Len(t) = n - 1}, x \in S}

Batches == SeqsUpTo(BatchItems, MaxBatch)

Init ==
    /\ users = Roster
    /\ locations = TwoLocations
    /\ daily_records = {}
    /\ expenses = {}
    /\ settings = 10
    /\ env \in [tz : {"utc"}, foreign_keys : BOOLEAN]
    /\ reqs = [c \in Clients |-> Idle]
    /\ started = 0
    /\ lastSaved = <<>>
    /\ resp = NoResp

Next ==
    \/ \E c \in Clients, ident \in Identities, item \in EntryItems : RecordStart(c, ident, item)
    \/ \E c \in Clients : RecordSelect(c)
    \/ \E c \in Clients : RecordWrite(c)
    \/ \E c \in Clients, ident \in Identities, items \in Batches : BulkStart(c, ident, items)
    \/ \E c \in Clients : BulkSelect(c)
    \/ \E c \in Clients : BulkWrite(c)

Spec == Init /\ [][Next]_vars

\* One bulk request at a time, with batches long enough for a failing entry to have
\* an entry before it and an entry after it
LongBatches == SeqsUpTo(BatchItems, MaxBatch + 1)

NextBulk ==
    \/ \E ident \in Identities, items \in LongBatches :
           started = 0 /\ BulkStart("c1", ident, items)
    \/ BulkSelect("c1")
    \/ BulkWrite("c1")

SpecBulk == Init /\ [][NextBulk]_vars

-----------------------------------------------------------------------------
(* The read paths over a stored ledger: specification SpecViews *)

\* Employee 4 is on a fixed monthly salary (POST /api/users stores salary_type and
\* fixed_salary as given)
ViewRoster == [Roster EXCEPT ![4].salary_type = "fixed", ![4].fixed_salary = 3000]

ViewCells == <<<<3, 20260331>>, <<3, 20260401>>, <<4, 20260401>>>>

ViewEntries == {<<NULL, "none">>, <<250, "present">>, <<100, "absent">>}

\* A ledger as the entry handlers leave it: one row at most per cell, entered by the
\* administrator
LedgerOf(f) ==
    {[id |-> i, user_id |-> ViewCells[i][1], record_date |-> ViewCells[i][2],
      scan_count |-> f[i][1], status |-> f[i][2], notes |-> NULLSTR, entered_by |-> 1] :
        i \in {j \in DOMAIN ViewCells : f[j][2] # "none"}}

ViewExpenses ==
    {[id |-> 1, location_id |-> 1, expense_date |-> 20260401, amount |-> 4050],
     [id |-> 2, location_id |-> 2, expense_date |-> 20260331, amount |-> 2500]}

Windows == {<<NULL, NULL>>, <<20260401, 20260430>>}

\* The dates on which the self-service rollup is asked
Todays == {20260331, 20260401}

SummaryQueries ==
    {[location_id |-> l, start_date |-> w[1], end_date |-> w[2]] :
        l \in {NULL, 1, 2}, w \in Windows}

ListQueries ==
    {[location_id |-> l, user_id |-> u, start_date |-> w[1], end_date |-> w[2],
      month |-> NULL, year |-> NULL] :
        l \in {NULL, 2}, u \in {NULL, 3, 4}, w \in Windows}
    \cup {[location_id |-> NULL, user_id |-> u, start_date |-> NULL, end_date |-> NULL,
            month |-> 3, year |-> 2026] : u \in {NULL, 3}}

GridQueries == {[location_id |-> l, month |-> m, year |-> 2026] : l \in {NULL, 2}, m \in {3, 4}}

NoChange ==
    [username |-> NULLSTR, password |-> NULLSTR, role |-> NULLSTR, is_active |-> NULL,
     salary_type |-> NULLSTR, custom_rate |-> NULL, fixed_salary |-> NULL]

\* Edits of an employee's compensation and activity
UserEdits ==
    {[NoChange EXCEPT !.custom_rate = 15], [NoChange EXCEPT !.custom_rate = 0],
     [NoChange EXCEPT !.salary_type = "fixed", !.fixed_salary = 1000],
     [NoChange EXCEPT !.is_active = 0]}

InitViews ==
    /\ users = ViewRoster
    /\ locations = TwoLocations
    /\ \E f \in [DOMAIN ViewCells -> ViewEntries] : daily_records = LedgerOf(f)
    /\ expenses = ViewExpenses
    /\ settings = 10
    /\ env \in [tz : {"west", "utc", "east"}, foreign_keys : {TRUE}]
    /\ reqs = [c \in Clients |-> Idle]
    /\ started = 0
    /\ lastSaved = <<>>
    /\ resp = NoResp

NextViews ==
    \/ \E ident \in Identities, q \in ListQueries : ListRecords(ident, q)
    \/ \E ident \in Identities, q \in GridQueries : MonthlyGrid(ident, q)
    \/ \E ident \in Identities, q \in SummaryQueries : FleetSummary(ident, q)
    \/ \E ident \in Identities, l \in {1, 2}, q \in SummaryQueries :
           Falsy(q.location_id) /\ LocationSummary(ident, l, q)
    \/ \E ident \in Identities, today \in Todays : MyStats(ident, today)
    \/ \E ident \in Identities, id \in {3}, body \in UserEdits : UserUpdate(ident, id, body)
    \/ \E ident \in Identities, rate \in {0, 20, NULL} : SettingsUpdate(ident, rate)
    \/ Deliver

SpecViews == InitViews /\ [][NextViews]_vars

-----------------------------------------------------------------------------
(* Claims about the ledger *)

Done(c) == reqs[c].pc = "done"

\* The cells a finished request was asked to write
CellsOf(c) ==
    IF reqs[c].op = "single"
    THEN {<<reqs[c].target, reqs[c].items[1].record_date>>}
    ELSE {<<reqs[c].items[j].user_id, reqs[c].items[j].record_date>> :
              j \in 1..Len(reqs[c].items)}

\* The stored fields a claim compares: everything but the rowid
Fields(r) == [r EXCEPT !.id = 0]

\* C1: after any sequence of recordAttendance and recordAttendanceBulk calls the
\* ledger holds at most one record for every (employee, date) pair.
C1_OneRecordPerCell ==
    \A r1, r2 \in daily_records :
        (r1.user_id = r2.user_id /\ r1.record_date = r2.record_date) => r1 = r2

\* A single entry and a bulk entry were both acknowledged for the same cell
C1_Witness ==
    \E c, d \in Clients :
        /\ Done(c) /\ reqs[c].op = "single" /\ reqs[c].code = 200
        /\ Done(d) /\ reqs[d].op = "bulk" /\ reqs[d].code = 200
        /\ CellsOf(c) \cap CellsOf(d) # {}
        /\ \A k \in CellsOf(c) : Cardinality(RowsFor(k[1], k[2])) = 1

\* C2 (as claimed): two recordAttendance requests for the same cell are both
\* acknowledged without error under every interleaving of their storage steps, and
\* the stored row carries the fields of one of them.
C2_BothAcknowledged ==
    \A c, d \in Clients :
        ( /\ c # d /\ Done(c) /\ Done(d)
          /\ reqs[c].op = "single" /\ reqs[d].op = "single"
          /\ reqs[c].code # 400 /\ reqs[d].code # 400
          /\ CellsOf(c) = CellsOf(d)
          /\ reqs[c].items[1].status \in ValidStatuses
          /\ reqs[d].items[1].status \in ValidStatuses )
        => /\ reqs[c].code = 200 /\ reqs[d].code = 200
           /\ {Fields(r) : r \in RowsFor(reqs[c].target, reqs[c].items[1].record_date)}
                  \in {{SingleRow(reqs[c])}, {SingleRow(reqs[d])}}

\* C3: recordAttendance called again with the arguments of the call that made the
\* latest ledger write leaves the ledger as it is, with exactly one row for the cell
\* (status, output count, note and recording identity as after the first call).
C3_Idempotent ==
    [][\A c \in Clients :
          ( /\ reqs[c].op = "single" /\ reqs[c].pc = "write" /\ reqs'[c].pc = "done"
            /\ lastSaved = <<[ident |-> reqs[c].ident, item |-> reqs[c].items[1]]>> )
          => /\ daily_records' = daily_records
             /\ {Fields(r) : r \in RowsFor(reqs[c].target, reqs[c].items[1].record_date)}
                    = {SingleRow(reqs[c])}
             /\ Cardinality(RowsFor(reqs[c].target, reqs[c].items[1].record_date)) = 1]_vars

\* Two identical calls, one after the other, were both acknowledged
C3_Witness ==
    /\ \A c \in Clients : Done(c) /\ reqs[c].op = "single" /\ reqs[c].code = 200
    /\ \A c, d \in Clients :
           reqs[c].ident = reqs[d].ident /\ reqs[c].items = reqs[d].items
    /\ \E c \in Clients :
           /\ lastSaved = <<[ident |-> reqs[c].ident, item |-> reqs[c].items[1]]>>
           /\ reqs[c].existing
           /\ reqs[c].items[1].scan_count # 0

\* An entry of a batch that the ledger accepts when submitted alone
EntryAcceptable(it) ==
    /\ it.user_id # NULL /\ it.record_date # NULL
    /\ (FalsyStr(it.status) \/ it.status \in ValidStatuses)
    /\ (env.foreign_keys => it.user_id \in DOMAIN users)

\* C4 (as claimed): when the upsert of one entry of a batch fails, every other entry
\* of the batch, before and after the failing one, is still stored.
C4_OtherEntriesStored ==
    \A c \in Clients :
        (Done(c) /\ reqs[c].op = "bulk" /\ reqs[c].code # 403)
        => \A j \in 1..Len(reqs[c].items) :
               EntryAcceptable(reqs[c].items[j])
               => SelectExisting(reqs[c].items[j].user_id, reqs[c].items[j].record_date)

-----------------------------------------------------------------------------
(* Claims about visibility *)

ScopedRoles == {"location_manager"} \cup OperatorRoles

\* The scope of an identity: the employees of the manager's location, the operator
InScope(ident, u) ==
    IF ident.role = "location_manager"
    THEN u \in DOMAIN users /\ users[u].location_id = ident.location_id
    ELSE u = ident.id

\* C5 (as claimed): a location manager bound to L who asks the fleet summary for a
\* location M # L receives figures for L only, never those of M.
C5_ManagerFleetClamped ==
    ( /\ resp.op = "fleet" /\ resp.ident.role = "location_manager"
      /\ ~Falsy(resp.query.location_id)
      /\ resp.query.location_id # resp.ident.location_id )
    => /\ resp.code = 200
       /\ \A e \in resp.locations : e.location_id = resp.ident.location_id

\* C6 (as claimed): a manager or operator bound to L who asks the location summary of
\* M # L is never given the figures of M.
C6_LocationSummaryClamped ==
    ( /\ resp.op = "location" /\ resp.ident.role \in ScopedRoles
      /\ resp.id # resp.ident.location_id )
    => (resp.code = 200 => resp.data.location_id = resp.ident.location_id)

\* C7: for a location manager, scanner operator or file handler, whatever location,
\* employee and date filters are requested, every record of listRecords and every row
\* and cell of monthlyGrid belongs to the identity's scope.
C7_ReadsWithinScope ==
    /\ (resp.op = "records" /\ resp.ident.role \in ScopedRoles)
       => \A r \in resp.records : InScope(resp.ident, r.user_id)
    /\ (resp.op = "monthly" /\ resp.ident.role \in ScopedRoles)
       => /\ \A u \in resp.rows : InScope(resp.ident, u)
          /\ \A c \in resp.cells : InScope(resp.ident, c.user_id)

\* A manager who named another location was answered with records
C7_Witness ==
    /\ resp.op = "records" /\ resp.ident.role = "location_manager"
    /\ resp.query.location_id = 2 /\ resp.ident.location_id = 1
    /\ resp.records # {}

\* C8 (as claimed): an operator who lists records with an employee filter naming
\* another employee receives their own records for the window.
C8_OperatorClampedToSelf ==
    ( /\ resp.op = "records" /\ resp.ident.role \in OperatorRoles
      /\ ~Falsy(resp.query.user_id) /\ resp.query.user_id # resp.ident.id )
    => /\ resp.code = 200
       /\ resp.records = {r \in Joined : r.user_id = resp.ident.id
                                          /\ ListDates(resp.query, r.record_date)}

-----------------------------------------------------------------------------
(* Claims about earnings *)

\* A step in which a read handler computes its answer from the stored state
Answer == resp = NoResp /\ resp' # NoResp

PresentRows(q, u) ==
    {r \in daily_records :
        r.user_id = u /\ r.status = "present" /\ InWindow(q, r.record_date)}

\* Output times rate over the present records of the employees `emps`, in hundredths
RECURSIVE PieceEarnings(_, _, _)
PieceEarnings(q, emps, rate) ==
    IF emps = {} THEN 0
    ELSE LET u == CHOOSE x \in emps : TRUE
         IN SumScans(PresentRows(q, u)) * rate[u] + PieceEarnings(q, emps \ {u}, rate)

\* What the summaries report of piece-rate employees under the rates `rate`: the
\* earnings of each listed piece-rate employee of a location summary, and the cost of
\* each fleet entry whose location has only piece-rate employees
PieceFiguresUnder(rate) ==
    /\ (resp'.op = "location" /\ resp'.code = 200)
       => \A e \in resp'.data.employees :
              users[e.id].salary_type # "fixed"
              => e.earnings = Round(PieceEarnings(resp'.query, {e.id}, rate), 100)
    /\ resp'.op = "fleet"
       => \A e \in resp'.locations :
              LET emps == {u \in DOMAIN users : users[u].location_id = e.location_id}
              IN (\A u \in emps : users[u].salary_type # "fixed")
                 => e.employee_cost = Round(PieceEarnings(resp'.query, emps, rate), 100)

\* C9 (as claimed): a present record of a piece-rate employee contributes output times
\* the custom rate when an override is set, and output times the global default when
\* none is set.
C9_OverrideWheneverSet ==
    [][Answer => PieceFiguresUnder(
           [u \in DOMAIN users |->
               IF users[u].custom_rate # NULL THEN users[u].custom_rate ELSE settings])]_vars

-----------------------------------------------------------------------------
(* A month of attendance of a salaried employee: specification SpecMonth *)

MonthRoster(amount) == [Roster EXCEPT ![4].salary_type = "fixed", ![4].fixed_salary = amount]

\* April 2026, a month of 30 days: employee 4 has a record on each day from..to, all
\* present but, when `away`, the last one; salaried employees are entered without an
\* output count (scan_count || null)
AprilLedger(from, to, away) ==
    {[id |-> k, user_id |-> 4, record_date |-> MkDate(2026, 4, k), scan_count |-> NULL,
      status |-> IF away /\ k = to THEN "absent" ELSE "present",
      notes |-> NULLSTR, entered_by |-> 1] : k \in from..to}

InitMonth ==
    /\ \E amount \in {3000, 1500} : users = MonthRoster(amount)
    /\ locations = TwoLocations
    /\ \E from \in {1, 2, 16}, to \in {15, 30}, away \in BOOLEAN :
           from <= to /\ daily_records = AprilLedger(from, to, away)
    /\ expenses = {}
    /\ settings = 10
    /\ env \in [tz : {"west", "utc", "east"}, foreign_keys : {TRUE}]
    /\ reqs = [c \in Clients |-> Idle]
    /\ started = 0
    /\ lastSaved = <<>>
    /\ resp = NoResp

NextMonth ==
    \/ \E ident \in Identities, q \in SummaryQueries : FleetSummary(ident, q)
    \/ \E ident \in Identities, q \in SummaryQueries :
           Falsy(q.location_id) /\ LocationSummary(ident, 2, q)
    \/ Deliver

SpecMonth == InitMonth /\ [][NextMonth]_vars

\* Thirty times what the salaried employees `emps` are due for their present days of
\* a 30-day month
RECURSIVE ThirtyTimesSalaryDue(_, _)
ThirtyTimesSalaryDue(q, emps) ==
    IF emps = {} THEN 0
    ELSE LET u == CHOOSE x \in emps : TRUE
         IN users[u].fixed_salary * Cardinality(PresentRows(q, u))
                + ThirtyTimesSalaryDue(q, emps \ {u})

\* C10 (as claimed): in a 30-day month a salaried employee's earnings in the location
\* and fleet summaries are amount times present days divided by 30: 3000 for 30 days
\* at 3000, 1500 for 15 days.
C10_ProratedByThirty ==
    /\ (resp.op = "location" /\ resp.code = 200)
       => \A e \in resp.data.employees :
              users[e.id].salary_type = "fixed"
              => e.earnings * 30 = ThirtyTimesSalaryDue(resp.query, {e.id})
    /\ resp.op = "fleet"
       => \A e \in resp.locations :
              LET emps == {u \in DOMAIN users : users[u].location_id = e.location_id}
              IN (emps # {} /\ \A u \in emps : users[u].salary_type = "fixed")
                 => e.employee_cost * 30 = ThirtyTimesSalaryDue(resp.query, emps)

-----------------------------------------------------------------------------
(* Claims about the proration divisor *)

\* What a salary `amount` is due for the records `rows` when each day is divided by
\* the length of the calendar month of its own date, in units of 1/Scale
RECURSIVE OwnMonthDue(_, _)
OwnMonthDue(rows, amount) ==
    IF rows = {} THEN 0
    ELSE LET r == CHOOSE x \in rows : TRUE
         IN (amount * Scale) \div DaysInMonth(Year(r.record_date), Month(r.record_date))
                + OwnMonthDue(rows \ {r}, amount)

RECURSIVE OwnMonthDueOf(_, _)
OwnMonthDueOf(q, emps) ==
    IF emps = {} THEN 0
    ELSE LET u == CHOOSE x \in emps : TRUE
         IN OwnMonthDue(PresentRows(q, u),
                        IF Falsy(users[u].fixed_salary) THEN 0 ELSE users[u].fixed_salary)
                + OwnMonthDueOf(q, emps \ {u})

\* C11 (as claimed): every present record of a salaried employee, the first and last
\* day of a month and two-month windows included, is prorated by the number of days
\* of the month of its own date: the summaries report the sum of these prorations.
C11_DivisorOfOwnMonth ==
    [][Answer =>
        /\ (resp'.op = "location" /\ resp'.code = 200)
           => \A e \in resp'.data.employees :
                  users[e.id].salary_type = "fixed"
                  => e.earnings = Round(OwnMonthDueOf(resp'.query, {e.id}), Scale)
        /\ resp'.op = "fleet"
           => \A e \in resp'.locations :
                  LET emps == {u \in DOMAIN users : users[u].location_id = e.location_id}
                  IN (emps # {} /\ \A u \in emps : users[u].salary_type = "fixed")
                     => e.employee_cost = Round(OwnMonthDueOf(resp'.query, emps), Scale)
    ]_vars

\* C12 (as claimed): the this-month earnings my-stats reports for a salaried employee
\* are the sum of the daily prorations of the present days of the current month, zero
\* when there is none.
C12_MonthEarningsProrated ==
    [][(Answer /\ resp'.op = "mystats" /\ resp'.code = 200
          /\ users[resp'.ident.id].salary_type = "fixed")
       => resp'.month.earnings =
              Round(OwnMonthDue(MonthRows(resp'.ident.id, resp'.today),
                                IF Falsy(users[resp'.ident.id].fixed_salary) THEN 0
                                ELSE users[resp'.ident.id].fixed_salary), Scale)]_vars

-----------------------------------------------------------------------------
(* Claims about the global default rate *)

Unrated(u) == users[u].salary_type # "fixed" /\ users[u].custom_rate = NULL

\* C13 (as claimed): when the settings store holds no global default rate, the present
\* records of a piece-rate employee without an override contribute zero earnings in
\* the location summary, the fleet summary and my-stats, and the request succeeds.
C13_NoRateMeansZero ==
    [][(Answer /\ settings = NULL) =>
        /\ resp'.op = "location"
           => /\ resp'.code = 200
              /\ \A e \in resp'.data.employees : Unrated(e.id) => e.earnings = 0
        /\ resp'.op = "fleet"
           => /\ resp'.code = 200
              /\ \A e \in resp'.locations :
                     (\A u \in DOMAIN users : users[u].location_id = e.location_id
                                              => Unrated(u))
                     => e.employee_cost = 0
        /\ resp'.op = "mystats"
           => /\ resp'.code = 200
              /\ Unrated(resp'.ident.id) => resp'.month.earnings = 0
    ]_vars

-----------------------------------------------------------------------------
(* Claims about the stored output count *)

\* C14 (as claimed): a stored record whose status is absent, file_close or holiday has
\* a null output count, even when the request supplied one.
C14_NoOutputOffDuty ==
    \A r \in daily_records :
        r.status \in {"absent", "file_close", "holiday"} => r.scan_count = NULL

-----------------------------------------------------------------------------
(* Claims about revenue and profit *)

\* The output of location l over the window of q: the output counts of the present
\* records of its employees
LocationOutput(q, l) ==
    SumScans({r \in daily_records :
                 /\ r.status = "present" /\ InWindow(q, r.record_date)
                 /\ users[r.user_id].location_id = l})

\* client_rate in hundredths, zero when unset
ClientRate(l) == IF locations[l].client_rate = NULL THEN 0 ELSE locations[l].client_rate

\* C15 (as claimed): in the location summary and in every fleet entry, revenue is the
\* location's total output over the window times its client_rate, zero when the rate
\* is unset.
C15_RevenueIsOutputTimesRate ==
    [][Answer =>
        /\ (resp'.op = "location" /\ resp'.code = 200)
           => resp'.data.summary.revenue * 100
                  = LocationOutput(resp'.query, resp'.id) * ClientRate(resp'.id)
        /\ resp'.op = "fleet"
           => \A e \in resp'.locations :
                  e.revenue * 100
                      = LocationOutput(resp'.query, e.location_id) * ClientRate(e.location_id)
    ]_vars

\* A record of figures carries a profit field `field` equal to revenue minus cost minus
\* expenses, whatever its sign
HasProfit(rec, field, revenue, cost, spent) ==
    IF field \in DOMAIN rec THEN rec[field] = rec[revenue] - rec[cost] - rec[spent]
    ELSE FALSE

\* C16 (as claimed): the location summary, every fleet entry and the fleet totals
\* report a profit equal to revenue minus employee cost minus expenses, negative when
\* costs exceed revenue.
C16_ProfitReported ==
    /\ (resp.op = "location" /\ resp.code = 200)
       => HasProfit(resp.data.summary, "profit", "revenue", "employee_cost", "expenses")
    /\ resp.op = "fleet"
       => /\ \A e \in resp.locations :
                 HasProfit(e, "profit", "revenue", "employee_cost", "expenses")
          /\ HasProfit(resp.totals, "total_profit", "total_revenue",
                       "total_employee_cost", "total_expenses")

-----------------------------------------------------------------------------
(* Locations that come and go: specification SpecLocations *)

\* Location 3 has no employees; it may be inactive
ThreeLocations(active) == TwoLocations @@ (3 :> LocationRow(active, 25))

SiteExpenses ==
    {{},
     {[id |-> 1, location_id |-> 3, expense_date |-> 20260401, amount |-> 4050]},
     {[id |-> 1, location_id |-> 1, expense_date |-> 20260331, amount |-> 2500]}}

SiteLedgers ==
    {{},
     {[id |-> 1, user_id |-> 3, record_date |-> 20260401, scan_count |-> 250,
       status |-> "present", notes |-> NULLSTR, entered_by |-> 1]}}

ExpenseBodies ==
    {[location_id |-> 3, expense_date |-> 20260401, amount |-> 1000],
     [location_id |-> 3, expense_date |-> 20260401, amount |-> 0]}

UserBodies ==
    {[username |-> "op5", password |-> "pw5", role |-> "scanner_operator",
      location_id |-> 3, salary_type |-> "", custom_rate |-> NULL, fixed_salary |-> NULL],
     [username |-> "op3", password |-> "pw5", role |-> "file_handler",
      location_id |-> 3, salary_type |-> "", custom_rate |-> NULL, fixed_salary |-> NULL]}

SiteQueries ==
    {[location_id |-> l, start_date |-> w[1], end_date |-> w[2]] :
        l \in {NULL, 3}, w \in Windows}

InitLocations ==
    /\ users = Roster
    /\ \E active \in {0, 1} : locations = ThreeLocations(active)
    /\ daily_records \in SiteLedgers
    /\ expenses \in SiteExpenses
    /\ settings = 10
    /\ env \in [tz : {"utc"}, foreign_keys : BOOLEAN]
    /\ reqs = [c \in Clients |-> Idle]
    /\ started = 0
    /\ lastSaved = <<>>
    /\ resp = NoResp

NextLocations ==
    \/ \E c \in Clients, ident \in Identities, l \in {1, 3}, permanent \in BOOLEAN :
           DeleteLocationStart(c, ident, l, permanent)
    \/ \E c \in Clients : DeleteCountEmployees(c)
    \/ \E c \in Clients : DeleteCountExpenses(c)
    \/ \E c \in Clients : DeleteCountRecords(c)
    \/ \E c \in Clients : DeleteLocationRow(c)
    \/ \E ident \in Identities, body \in ExpenseBodies : ExpenseCreate(ident, body)
    \/ \E ident \in Identities, body \in ExpenseBodies : ExpenseUpdate(ident, 1, body)
    \/ \E ident \in Identities, body \in UserBodies : UserCreate(ident, body)
    \/ \E ident \in Identities, q \in SiteQueries : FleetSummary(ident, q)
    \/ Deliver

SpecLocations == InitLocations /\ [][NextLocations]_vars

-----------------------------------------------------------------------------
(* Claims about the fleet list *)

\* The active locations the request asks for
ListedLocations(q) ==
    {l \in DOMAIN locations :
        locations[l].is_active = 1 /\ (q.location_id = NULL \/ l = q.location_id)}

\* Location l has no attendance record in the window of q (in particular when it has
\* no employees)
NoAttendance(q, l) ==
    \A r \in daily_records :
        users[r.user_id].location_id = l => ~InWindow(q, r.record_date)

\* The expenses of location l dated in the window, in hundredths
SpentInWindow(q, l) ==
    SumAmount({e \in expenses : e.location_id = l /\ InWindow(q, e.expense_date)})

\* C17 (as claimed): the fleet summary lists every active location (or the filtered
\* one), and an active location without employees or without attendance records in the
\* window is listed with output, employee cost, expenses and revenue all zero.
C17_IdleLocationAllZero ==
    [][(Answer /\ resp'.op = "fleet") =>
        /\ {e.location_id : e \in resp'.locations} = ListedLocations(resp'.query)
        /\ \A e \in resp'.locations :
               NoAttendance(resp'.query, e.location_id)
               => /\ e.total_scans = 0 /\ e.employee_cost = 0
                  /\ e.expenses = 0 /\ e.revenue = 0
    ]_vars

\* C17 (amended): such a location is listed with output, employee cost and revenue
\* zero, and with the expenses recorded for it in the window, zero when there is none.
C17_IdleLocationListed ==
    [][(Answer /\ resp'.op = "fleet") =>
        /\ {e.location_id : e \in resp'.locations} = ListedLocations(resp'.query)
        /\ \A e \in resp'.locations :
               NoAttendance(resp'.query, e.location_id)
               => /\ e.total_scans = 0 /\ e.employee_cost = 0 /\ e.revenue = 0
                  /\ e.expenses = Round(SpentInWindow(resp'.query, e.location_id), 100)
    ]_vars

\* Location 3, active and without employees, is listed with four zeros next to a
\* location that has output
C17_Witness ==
    /\ resp.op = "fleet" /\ resp.query.location_id = NULL
    /\ 3 \in DOMAIN locations /\ locations[3].is_active = 1 /\ CountEmployees(3) = 0
    /\ \E e \in resp.locations :
           /\ e.location_id = 3 /\ e.total_scans = 0 /\ e.employee_cost = 0
           /\ e.expenses = 0 /\ e.revenue = 0
    /\ \E e \in resp.locations : e.total_scans > 0

\* The sum of the column `field` over the entries of a response
RECURSIVE ColumnSum(_, _)
ColumnSum(entries, field) ==
    IF entries = {} THEN 0
    ELSE LET e == CHOOSE x \in entries : TRUE
         IN e[field] + ColumnSum(entries \ {e}, field)

\* C18: in every fleet summary response each field of the totals row is the sum of
\* that field over the per-location entries of the same response.
C18_TotalsAreColumnSums ==
    resp.op = "fleet"
    => /\ resp.totals.total_scans = ColumnSum(resp.locations, "total_scans")
       /\ resp.totals.total_employee_cost = ColumnSum(resp.locations, "employee_cost")
       /\ resp.totals.total_expenses = ColumnSum(resp.locations, "expenses")
       /\ resp.totals.total_revenue = ColumnSum(resp.locations, "revenue")

\* Two locations with a cost each, and totals that differ from every single entry
C18_Witness ==
    /\ resp.op = "fleet"
    /\ \E e1, e2 \in resp.locations :
           /\ e1.location_id # e2.location_id
           /\ e1.employee_cost > 0 /\ e2.employee_cost > 0
           /\ e1.expenses > 0 /\ e2.expenses > 0 /\ e1.revenue > 0
    /\ resp.totals.total_scans > 0

-----------------------------------------------------------------------------
(* Claims about the deletion guard *)

\* Request c of kind `op` is answered in this step
Completes(c, op) == reqs'[c] # reqs[c] /\ reqs'[c].op = op /\ reqs'[c].pc = "done"

\* The count of the first category that blocks the deletion of l
BlockingCount(l) ==
    IF CountEmployees(l) > 0 THEN CountEmployees(l)
    ELSE IF CountExpenses(l) > 0 THEN CountExpenses(l)
    ELSE CountRecords(l)

\* C19 (as claimed): a permanent deletion of a location with a dependent employee,
\* expense or attendance record is rejected with the blocking count and changes
\* nothing; with no dependent in the three categories it succeeds and removes the
\* location.
C19_DeletionGuard ==
    [][\A c \in Clients :
        LET l == reqs'[c].target
        IN ( /\ Completes(c, "delloc") /\ reqs'[c].permanent
             /\ reqs'[c].ident.role = "super_admin" /\ l \in DOMAIN locations )
           => IF BlockingCount(l) > 0
              THEN /\ reqs'[c].code = 400 /\ reqs'[c].count = BlockingCount(l)
                   /\ UNCHANGED <<users, locations, expenses, daily_records>>
              ELSE /\ reqs'[c].code = 200 /\ locations' = WithoutLocation(l)
                   /\ UNCHANGED <<users, expenses, daily_records>>
    ]_vars

-----------------------------------------------------------------------------
(* Claims about the month filter *)

\* C20 (as claimed): listRecords with a (year, month) pair and no explicit range
\* returns exactly the visible records dated from the first to the last calendar day
\* of that month: the last day is included, neighbouring months are not.
C20_WholeMonthListed ==
    ( /\ resp.op = "records" /\ resp.code = 200
      /\ ~Falsy(resp.query.month) /\ ~Falsy(resp.query.year)
      /\ Falsy(resp.query.start_date) /\ Falsy(resp.query.end_date) )
    => LET q == resp.query
           visible == ListRecordsRows(resp.ident, [q EXCEPT !.month = NULL, !.year = NULL])
       IN resp.records =
              {r \in visible :
                  /\ MkDate(q.year, q.month, 1) <= r.record_date
                  /\ r.record_date <= MkDate(q.year, q.month, DaysInMonth(q.year, q.month))}

-----------------------------------------------------------------------------
(* Employee administration: specification SpecStaff *)

\* "guest" is no role of the users schema
StaffEdits ==
    {[NoChange EXCEPT !.password = "pw9x"],
     [NoChange EXCEPT !.username = "op3", !.password = "pw9x"],
     [NoChange EXCEPT !.username = "new"],
     [NoChange EXCEPT !.role = "location_manager"],
     [NoChange EXCEPT !.role = "super_admin"],
     [NoChange EXCEPT !.role = "guest"],
     [NoChange EXCEPT !.custom_rate = 15]}

StaffBodies ==
    {[username |-> "op5", password |-> "pw5x", role |-> r, location_id |-> l,
      salary_type |-> "", custom_rate |-> NULL, fixed_salary |-> NULL] :
        r \in {"scanner_operator", "location_manager", "super_admin", "guest"},
        l \in {1, 2}}

InitStaff ==
    /\ users = Roster
    /\ locations = TwoLocations
    /\ daily_records = {}
    /\ expenses = {}
    /\ settings = 10
    /\ env \in [tz : {"utc"}, foreign_keys : BOOLEAN]
    /\ reqs = [c \in Clients |-> Idle]
    /\ started = 0
    /\ lastSaved = <<>>
    /\ resp = NoResp

NextStaff ==
    \/ \E ident \in Identities, body \in StaffBodies : UserCreate(ident, body)
    \/ \E ident \in Identities, id \in 2..5, body \in StaffEdits : UserUpdate(ident, id, body)
    \/ \E ident \in Identities, id \in 2..5 : UserDeactivate(ident, id)
    \/ \E ident \in Identities, id \in 2..5, pw \in {"pw9x", "pw"} :
           ResetPassword(ident, id, pw)
    \/ Deliver

SpecStaff == InitStaff /\ [][NextStaff]_vars

-----------------------------------------------------------------------------
(* Claims about employee administration *)

\* A request of a manager that names an employee of another location is answered
ForeignTargetAnswered ==
    /\ Answer /\ resp'.op \in {"user_update", "user_deactivate", "reset_password"}
    /\ resp'.ident.role = "location_manager" /\ resp'.ident.location_id # NULL
    /\ resp'.id \in DOMAIN users
    /\ users[resp'.id].location_id # resp'.ident.location_id

C22_NoPromotionByManager ==
    [][(Answer /\ resp'.op \in {"user_create", "user_update"}
          /\ resp'.ident.role = "location_manager")
       => /\ resp'.body.role \in {"location_manager", "super_admin"} => resp'.code = 403
          /\ \A u \in DOMAIN users' :
                 (u \notin DOMAIN users \/ users'[u].role # users[u].role)
                 => users'[u].role \notin {"location_manager", "super_admin"}]_vars

-----------------------------------------------------------------------------
(* Claims about a changing global rate *)

\* C23: every summary and my-stats computation uses the global default rate stored at
\* the time of the computation for the piece-rate employees without an override,
\* whatever the rate was when their records were entered.
C23_CurrentRateUsed ==
    [][(Answer /\ settings # NULL) =>
        LET now == [u \in DOMAIN users |-> settings]
        IN /\ (resp'.op = "location" /\ resp'.code = 200)
              => \A e \in resp'.data.employees :
                     Unrated(e.id)
                     => e.earnings = Round(PieceEarnings(resp'.query, {e.id}, now), 100)
           /\ resp'.op = "fleet"
              => \A e \in resp'.locations :
                     LET emps == {u \in DOMAIN users :
                                     users[u].location_id = e.location_id}
                     IN (\A u \in emps : Unrated(u))
                        => e.employee_cost
                               = Round(PieceEarnings(resp'.query, emps, now), 100)
           /\ (resp'.op = "mystats" /\ resp'.code = 200 /\ Unrated(resp'.ident.id))
              => resp'.month.earnings
                     = Round(SumScans(MonthRows(resp'.ident.id, resp'.today)) * settings, 100)
    ]_vars

\* The rate was changed from 0.10 to 0.20 and the 250 pages entered before the change
\* are reported at the new rate
C23_Witness ==
    /\ settings = 20 /\ started > 0
    /\ resp.op = "location" /\ resp.code = 200
    /\ \E e \in resp.data.employees :
           e.id = 3 /\ Unrated(3) /\ e.total_scans = 250 /\ e.earnings = 50

-----------------------------------------------------------------------------
(* The rollups over the rows as the storage layer returns them: specification SpecOrder.

   Neither records query has an ORDER BY, so the order of the rows is the storage
   layer's choice.  The ledgers hold piece-rate employees only. *)

\* The orders in which a query may return a set of rows
Orderings(rows) ==
    {p \in [1..Cardinality(rows) -> rows] : \A i, j \in DOMAIN p : p[i] = p[j] => i = j}

AllTime == [start_date |-> NULL, end_date |-> NULL, location_id |-> NULL]

\* GET /api/dashboard/simple: the entry of location l
FleetRollup(ident, l, order) ==
    /\ resp = NoResp
    /\ l \in FleetLocations(AllTime)
    /\ order \in Orderings(FleetRecords(AllTime, l))
    /\ resp' = [op |-> "fleet_rows", ident |-> ident, id |-> l, order |-> order,
                code |-> 200,
                total_scans |-> ScansInOrder(order),
                employee_cost |-> MathRound(FloatCost(order))]
    /\ UNCHANGED <<users, locations, daily_records, expenses, settings, env, reqs,
                   started, lastSaved>>

\* GET /api/dashboard/location/:id: the entry of employee u
LocationRollup(ident, l, u, order) ==
    /\ resp = NoResp
    /\ l \in DOMAIN locations
    /\ u \in LocationEmployees(l)
    /\ order \in Orderings(EmployeeRecords(AllTime, l, u))
    /\ resp' = [op |-> "location_rows", ident |-> ident, id |-> l, employee |-> u,
                order |-> order, code |-> 200,
                total_scans |-> ScansInOrder(order),
                employee_cost |-> MathRound(FloatCost(order))]
    /\ UNCHANGED <<users, locations, daily_records, expenses, settings, env, reqs,
                   started, lastSaved>>

\* Employee 3 with up to one present record of 1, 8 or 43 pages on each of three days
OrderLedgers ==
    {{[id |-> k, user_id |-> 3, record_date |-> MkDate(2026, 4, k),
       scan_count |-> counts[k], status |-> "present", notes |-> NULLSTR,
       entered_by |-> 1] : k \in {d \in 1..3 : counts[d] # 0}} :
        counts \in [1..3 -> {0, 1, 8, 43}]}

InitOrder ==
    /\ \E rate \in {NULL, 15} : users = [Roster EXCEPT ![3].custom_rate = rate]
    /\ locations = TwoLocations
    /\ daily_records \in OrderLedgers
    /\ expenses = {}
    /\ settings \in {10, 20}
    /\ env \in [tz : {"utc"}, foreign_keys : {TRUE}]
    /\ reqs = [c \in Clients |-> Idle]
    /\ started = 0
    /\ lastSaved = <<>>
    /\ resp = NoResp

NextOrder ==
    \/ \E ident \in Identities, order \in Orderings(FleetRecords(AllTime, 1)) :
           FleetRollup(ident, 1, order)
    \/ \E ident \in Identities, order \in Orderings(EmployeeRecords(AllTime, 1, 3)) :
           LocationRollup(ident, 1, 3, order)
    \/ Deliver

SpecOrder == InitOrder /\ [][NextOrder]_vars

\* C24: for a fixed ledger and configuration, the output and the earnings that a rollup
\* reports are the same for every order in which the storage layer returns the records
C24_OrderIndependent ==
    resp.op \in {"fleet_rows", "location_rows"} =>
        \A other \in Orderings({resp.order[i] : i \in DOMAIN resp.order}) :
            /\ ScansInOrder(other) = resp.total_scans
            /\ MathRound(FloatCost(other)) = resp.employee_cost

-----------------------------------------------------------------------------
(* Roles and visibility: specification SpecRoles.

   POST /api/roles adds a label to the roles table, which no other route reads; what
   decides whether an identity can carry the label "auditor" is the users table. *)

RoleBodies ==
    {[username |-> "aud5", password |-> "pw5x", role |-> r, location_id |-> l,
      salary_type |-> "", custom_rate |-> NULL, fixed_salary |-> NULL] :
        r \in {"auditor", "scanner_operator"}, l \in {1, 2}}

RoleEdits == {[NoChange EXCEPT !.role = r] : r \in {"auditor", "file_handler"}}

RoleLedgers ==
    {{[id |-> u - 2, user_id |-> u, record_date |-> 20260331, scan_count |-> 250,
       status |-> "present", notes |-> NULLSTR, entered_by |-> 1] : u \in S} :
        S \in {{3}, {4}, {3, 4}}}

RoleQueries ==
    {[location_id |-> l, user_id |-> u, start_date |-> NULL, end_date |-> NULL,
      month |-> NULL, year |-> NULL] : l \in {NULL, 2}, u \in {NULL, 4}}

InitRoles ==
    /\ users = Roster
    /\ locations = TwoLocations
    /\ daily_records \in RoleLedgers
    /\ expenses = {}
    /\ settings = 10
    /\ env \in [tz : {"utc"}, foreign_keys : BOOLEAN]
    /\ reqs = [c \in Clients |-> Idle]
    /\ started = 0
    /\ lastSaved = <<>>
    /\ resp = NoResp

NextRoles ==
    \/ \E ident \in Identities, body \in RoleBodies : UserCreate(ident, body)
    \/ \E ident \in Identities, id \in 3..5, body \in RoleEdits : UserUpdate(ident, id, body)
    \/ \E ident \in Identities, q \in RoleQueries : ListRecords(ident, q)
    \/ \E ident \in Identities, q \in GridQueries : MonthlyGrid(ident, q)
    \/ Deliver

SpecRoles == InitRoles /\ [][NextRoles]_vars

-----------------------------------------------------------------------------
(* Claims about the two rollups of one location *)

\* C26: for every ledger, window and active location, the entry of the location in the
\* fleet summary and the summary of the location summary report the same total output,
\* employee cost, expenses and revenue, also when the location has deactivated
\* employees with records in the window.
C26_FleetEntryMatchesLocation ==
    [][(Answer /\ resp'.op = "fleet") =>
          \A e \in resp'.locations :
              LET s == LocationData(resp'.query, e.location_id).summary
              IN /\ e.total_scans = s.total_scans
                 /\ e.employee_cost = s.employee_cost
                 /\ e.expenses = s.expenses
                 /\ e.revenue = s.revenue]_vars

-----------------------------------------------------------------------------
(* Claims about references to deleted locations *)

\* The locations that have been permanently deleted
DeletedLocations == DOMAIN ThreeLocations(1) \ DOMAIN locations

\* C27: under every interleaving of a permanent location deletion with concurrent
\* employee creation and expense creation or update, no employee and no expense
\* references a location that has been permanently deleted.
C27_NoReferenceToDeleted ==
    \A l \in DeletedLocations :
        /\ \A u \in DOMAIN users : users[u].location_id # l
        /\ \A e \in expenses : e.location_id # l

-----------------------------------------------------------------------------
(* Claims about who may write which records *)

\* The records among `rows` of employees outside the location of `ident`
RecordsOutside(rows, ident) ==
    {r \in rows : r.user_id \notin DOMAIN users
                  \/ users[r.user_id].location_id # ident.location_id}

\* C28: a location manager bound to L creates or overwrites attendance records only
\* for employees of L: no write of a recordAttendance or recordAttendanceBulk call of
\* the manager changes a record of an employee of another location.
C28_ManagerWritesOwnLocation ==
    [][\A c \in Clients :
          ( /\ reqs[c].ident.role = "location_manager"
            /\ reqs[c].pc = "write" /\ reqs'[c].pc # "write" )
          => RecordsOutside(daily_records', reqs[c].ident)
                 = RecordsOutside(daily_records, reqs[c].ident)]_vars

\* C29: when an employee edit is rejected because the requested username already
\* belongs to another user, no field of the target user has changed, including the
\* password when a new password was supplied in the same request.
C29_RejectedEditChangesNothing ==
    [][(Answer /\ resp'.op = "user_update" /\ resp'.code = 400) => users' = users]_vars

\* The records among `rows` of employees other than `ident`
RecordsOfOthers(rows, ident) == {r \in rows : r.user_id # ident.id}

\* C30: an operator calling recordAttendance creates or changes only its own records:
\* whatever employee the request names, the row written is keyed by the operator's
\* own id and the records of all other employees are unchanged.
C30_OperatorWritesOwnRecords ==
    [][\A c \in Clients :
          ( /\ reqs[c].ident.role \in OperatorRoles
            /\ reqs[c].pc = "write" /\ reqs'[c].pc # "write" )
          => /\ RecordsOfOthers(daily_records', reqs[c].ident)
                    = RecordsOfOthers(daily_records, reqs[c].ident)
             /\ reqs'[c].code = 200
                    => \E r \in daily_records' :
                           /\ r.user_id = reqs[c].ident.id
                           /\ Fields(r) = SingleRow(reqs[c])]_vars

\* An operator named another employee, was acknowledged, and the ledger holds a row
\* of the operator and none of the employee named
C30_Witness ==
    \E c \in Clients :
        /\ Done(c) /\ reqs[c].op = "single" /\ reqs[c].code = 200
        /\ reqs[c].ident.role \in OperatorRoles
        /\ reqs[c].items[1].user_id # reqs[c].ident.id
        /\ RowsFor(reqs[c].ident.id, reqs[c].items[1].record_date) # {}
        /\ \A r \in daily_records : r.user_id # reqs[c].items[1].user_id

====
